---- MODULE Spec2Model ----
(***************************************************************************)
(* A model of drake/common/symbolic/decompose.cc: the decomposition of    *)
(* symbolic expressions into linear, quadratic, L2-norm and lumped-        *)
(* parameter normal forms.                                                 *)
(*                                                                         *)
(* Expressions.  A Variable is its id, a positive integer.  The operand    *)
(* of a product ("atom") is one of the nodes of AtomTable, named by its    *)
(* position there; a node is a record [kind, args], args a sequence of     *)
(* variable ids:                                                           *)
(*   "Var"  the variable args[1];                                          *)
(*   "Add"  the sum of the variables args, the base of a power with a      *)
(*          constant exponent that expansion leaves alone (exponent < 0);  *)
(*   "Pow"  pow(args[1], args[2]), a power with a variable exponent;       *)
(*   "Div"  args[1] / args[2];                                             *)
(*   "Sin"  sin of the product of the variables args.                      *)
(* A monomial is the tuple of the integer exponents of the atoms (the      *)
(* base_to_exponent map of a multiplication, 0 for a base not in it), an   *)
(* expanded expression is a function from monomials to non-zero integer    *)
(* coefficients (the constant is the coefficient of the monomial One).     *)
(* Structural equality of expanded expressions is equality of these        *)
(* values.  An expression as a caller builds it is a tree [s, u, v] that   *)
(* stands for s + u * v, with u and v sums that construction does not      *)
(* distribute.                                                             *)
(***************************************************************************)
EXTENDS Integers, Sequences, FiniteSets, TLC

\* lp: the frame of DecomposeLumpedParameters (its arguments f and
\* parameters, the loop index i, alpha_map, w0, the triple of the row just
\* decomposed, and the returned W and alpha).
\* lin: the frame of DecomposeLinearExpressions (expressions, vars, the
\* output M and the row index i).
\* quad: the frame of DecomposeQuadraticPolynomial (poly, map_var_to_index,
\* the outputs Q, b, c and the monomials the loop has still to visit).
\* aff: the frame of IsAffine(m, vars) and its IsAffineVisitor.
\* idx: the frame of ExtractVariablesFromExpression.
\* l2: the frame of DecomposeL2NormExpression.
\* vis: the frame of one method of DecomposeLumpedParametersVisitor
\* (VisitMultiplication, VisitPow or VisitAddition) on an expanded e.
\* app: the caller's vars and map_var_to_index across calls of
\* ExtractAndAppendVariablesFromExpression.
VARIABLES lp, lin, quad, aff, idx, l2, vis, app

all_vars == <<lp, lin, quad, aff, idx, l2, vis, app>>

\* A function that is not being called.
Idle == [pc |-> "idle"]

\* Bounds of the model: rows of an input vector, terms of an input sum.
MaxRows == 2

MaxTerms == 2

----------------------------------------------------------------------------
(* Atoms, monomials and expanded expressions.                              *)

Atom(kind, args) == [kind |-> kind, args |-> args]

\* The atoms of the model, in the order of Expression::Less (by kind, then
\* by arguments): x1, x2, p1, p2, x1 + p1, x2 / p1, pow(x1, p1),
\* pow(p1, x1), sin(p1), sin(x1 * p1).
AtomTable ==
    << Atom("Var", <<1>>), Atom("Var", <<2>>), Atom("Var", <<3>>),
       Atom("Var", <<4>>), Atom("Add", <<1, 3>>), Atom("Div", <<2, 3>>),
       Atom("Pow", <<1, 3>>), Atom("Pow", <<3, 1>>), Atom("Sin", <<3>>),
       Atom("Sin", <<1, 3>>) >>

Atoms == DOMAIN AtomTable

\* The atom that is the variable id; the atom with a kind and arguments.
V(id) == CHOOSE a \in Atoms : AtomTable[a] = Atom("Var", <<id>>)

A(kind, args) == CHOOSE a \in Atoms : AtomTable[a] = Atom(kind, args)

\* The bases of a monomial: the atoms with a non-zero exponent.
Bases(m) == {a \in Atoms : m[a] # 0}

\* Variables of an atom, a monomial, an expanded expression.
AtomVariables(a) == {AtomTable[a].args[k] : k \in DOMAIN AtomTable[a].args}

MonoVariables(m) == UNION {AtomVariables(a) : a \in Bases(m)}

GetVariables(e) == UNION {MonoVariables(m) : m \in DOMAIN e}

\* The empty monomial (the constant 1 as a product of no factors).
One == [a \in Atoms |-> 0]

\* The monomial base^exp.
Power(a, n) == [b \in Atoms |-> IF b = a THEN n ELSE 0]

\* The product of two monomials: exponents of equal bases add up, a base
\* whose exponent becomes 0 disappears.
MonoMul(m1, m2) == [a \in Atoms |-> m1[a] + m2[a]]

\* The expression 0, a constant, a single term c * m.
Zero == [m \in {} |-> 0]

Term(c, m) == IF c = 0 THEN Zero ELSE [n \in {m} |-> c]

Const(c) == Term(c, One)

Coef(e, m) == IF m \in DOMAIN e THEN e[m] ELSE 0

\* operator+ of Expression on expanded operands: like terms are merged and
\* a term whose coefficient becomes 0 is dropped.
Plus(e1, e2) ==
    LET D == {m \in DOMAIN e1 \cup DOMAIN e2 : Coef(e1, m) + Coef(e2, m) # 0}
    IN  [m \in D |-> Coef(e1, m) + Coef(e2, m)]

RECURSIVE SumProducts(_, _, _)
SumProducts(pairs, e1, e2) ==
    IF pairs = {} THEN 0
    ELSE LET pr == CHOOSE q \in pairs : TRUE
         IN  e1[pr[1]] * e2[pr[2]] + SumProducts(pairs \ {pr}, e1, e2)

\* operator* of Expression followed by expansion: every term of e1 times
\* every term of e2, like terms merged.
Times(e1, e2) ==
    LET pairs == (DOMAIN e1) \X (DOMAIN e2)
        c(m) == SumProducts({pr \in pairs : MonoMul(pr[1], pr[2]) = m}, e1, e2)
        D == {m \in {MonoMul(pr[1], pr[2]) : pr \in pairs} : c(m) # 0}
    IN  [m \in D |-> c(m)]

\* The sum of a set of expressions.
RECURSIVE SumOf(_)
SumOf(S) ==
    IF S = {} THEN Zero
    ELSE LET t == CHOOSE x \in S : TRUE IN Plus(t, SumOf(S \ {t}))

Scale(c, e) == Times(Const(c), e)

is_zero(e) == e = Zero

is_constant(e) == DOMAIN e \subseteq {One}

get_constant_value(e) == Coef(e, One)

----------------------------------------------------------------------------
(* The total order of expressions (Expression::Less), used by every        *)
(* std::map keyed by an expression: atoms by kind and then by arguments,   *)
(* monomials and expressions as the sorted lists of their entries.         *)

\* AtomTable lists the atoms in increasing order.
AtomLess(a, b) == a < b

\* m1 before m2 in the lexicographic order of their (base, exponent) lists.
MonoLess(m1, m2) ==
    LET D == {a \in Atoms : m1[a] # m2[a]}
    IN  IF D = {} THEN FALSE
        ELSE LET a == CHOOSE x \in D : \A y \in D : x <= y
             IN  IF m1[a] # 0 /\ m2[a] # 0 THEN m1[a] < m2[a]
                 ELSE IF m1[a] # 0
                      THEN \E b \in Bases(m2) : AtomLess(a, b)
                      ELSE ~ \E b \in Bases(m1) : AtomLess(a, b)

\* e1 before e2 in the lexicographic order of their (term, coefficient) lists.
ExprLess(e1, e2) ==
    LET D == {m \in DOMAIN e1 \cup DOMAIN e2 : Coef(e1, m) # Coef(e2, m)}
    IN  IF D = {} THEN FALSE
        ELSE LET m == CHOOSE x \in D : \A y \in D : x = y \/ MonoLess(x, y)
             IN  IF m \in DOMAIN e1 /\ m \in DOMAIN e2 THEN e1[m] < e2[m]
                 ELSE IF m \in DOMAIN e1
                      THEN \E n \in DOMAIN e2 : MonoLess(m, n)
                      ELSE ~ \E n \in DOMAIN e1 : MonoLess(m, n)

\* The elements of a set of atoms, of monomials, of expressions in
\* increasing order: the iteration order of a std::map over them.
RECURSIVE SortAtoms(_)
SortAtoms(S) ==
    IF S = {} THEN <<>>
    ELSE LET a == CHOOSE x \in S : \A y \in S : x = y \/ AtomLess(x, y)
         IN  <<a>> \o SortAtoms(S \ {a})

RECURSIVE SortMonos(_)
SortMonos(S) ==
    IF S = {} THEN <<>>
    ELSE LET m == CHOOSE x \in S : \A y \in S : x = y \/ MonoLess(x, y)
         IN  <<m>> \o SortMonos(S \ {m})

RECURSIVE SortExprs(_)
SortExprs(S) ==
    IF S = {} THEN <<>>
    ELSE LET e == CHOOSE x \in S : \A y \in S : x = y \/ ExprLess(x, y)
         IN  <<e>> \o SortExprs(S \ {e})

RECURSIVE SortIds(_)
SortIds(S) ==
    IF S = {} THEN <<>>
    ELSE LET v == CHOOSE x \in S : \A y \in S : x <= y
         IN  <<v>> \o SortIds(S \ {v})

----------------------------------------------------------------------------
(* Expressions as the caller builds them, and Expression::Expand().        *)

\* The tree s + u * v; Flat(s) is an expression with no product of sums.
Tree(s, u, v) == [s |-> s, u |-> u, v |-> v]

Flat(s) == Tree(s, Zero, Zero)

\* Expand distributes the product over the sums and merges like terms.
Expand(e) == Plus(e.s, Times(e.u, e.v))

\* The atoms at the nodes of the tree e (its sub-expressions' operators).
TreeAtoms(e) ==
    UNION {Bases(m) : m \in DOMAIN e.s \cup DOMAIN e.u \cup DOMAIN e.v}

TreeVariables(e) == GetVariables(e.s) \cup GetVariables(e.u) \cup GetVariables(e.v)

\* get_kind() of an expanded expression.
get_kind(e) ==
    IF is_constant(e) THEN "Constant"
    ELSE IF Cardinality(DOMAIN e) > 1 THEN "Add"
    ELSE LET m == CHOOSE n \in DOMAIN e : TRUE
         IN  IF e[m] # 1 \/ Cardinality(Bases(m)) > 1 THEN "Mul"
             ELSE LET a == CHOOSE b \in Bases(m) : TRUE
                  IN  IF m[a] # 1 THEN "Pow" ELSE AtomTable[a].kind

----------------------------------------------------------------------------
(* DecomposeLumpedParametersVisitor.  A LumpedFactorization is the record  *)
(* [err, w, alpha, w0]; err names the exception the visit threw ("" for    *)
(* none), in which case nothing is returned.                               *)

LumpedFactorization(w, alpha, w0) ==
    [err |-> "", w |-> w, alpha |-> alpha, w0 |-> w0]

Thrown(what) == [err |-> what, w |-> <<>>, alpha |-> <<>>, w0 |-> Zero]

\* The variables a power, or a non-polynomial term, mixes: both kinds.
IsSubsetOf(vars, parameters) == vars \subseteq parameters

\* VisitVariable with the two cases exchanged.
VisitVariableExchanged(e, parameters) ==
    LET var == CHOOSE v \in GetVariables(e) : TRUE
    IN  IF var \notin parameters
        THEN LumpedFactorization(<<Const(1)>>, <<e>>, Zero)
        ELSE LumpedFactorization(<<>>, <<>>, e)

\* W = [1], alpha = [e], w0 = 0 for a parameter, W = [], alpha = [], w0 = e
\* for any other variable.
VisitVariable(e, parameters) ==
    LET var == CHOOSE v \in GetVariables(e) : TRUE
    IN  IF var \in parameters
        THEN LumpedFactorization(<<Const(1)>>, <<e>>, Zero)
        ELSE LumpedFactorization(<<>>, <<>>, e)

VisitConstant(e, parameters) == LumpedFactorization(<<>>, <<>>, e)

\* is_constant(get_second_argument(e)) of a power e: the exponent of a
\* "Pow" atom is a variable, every other exponent is a number.
ExponentIsConstant(e) ==
    \A m \in DOMAIN e : \A a \in Bases(m) : AtomTable[a].kind # "Pow"

\* VisitPow that returns a power of mixed variables as a weight-free term.
VisitPowKeepsMixed(e, parameters) ==
    LET vars == GetVariables(e)
    IN  IF IsSubsetOf(vars, parameters)
        THEN LumpedFactorization(<<Const(1)>>, <<e>>, Zero)
        ELSE LumpedFactorization(<<>>, <<>>, e)

\* A power e: all its variables are parameters, none is, or they are
\* mixed, which throws one of two errors by the exponent.
VisitPow(e, parameters) ==
    LET vars == GetVariables(e)
    IN  IF IsSubsetOf(vars, parameters)
        THEN LumpedFactorization(<<Const(1)>>, <<e>>, Zero)
        ELSE IF vars \cap parameters = {}
        THEN LumpedFactorization(<<>>, <<>>, e)
        ELSE IF ExponentIsConstant(e)
        THEN Thrown("UnsupportedMixedPower")
        ELSE Thrown("NonSeparablePower")

\* VisitNonPolynomialTerm that takes a mixed term for a parameter term.
VisitNonPolynomialTermNoThrow(e, parameters) ==
    LET vars == GetVariables(e)
    IN  IF vars \cap parameters = {}
        THEN LumpedFactorization(<<>>, <<>>, e)
        ELSE LumpedFactorization(<<Const(1)>>, <<e>>, Zero)

VisitNonPolynomialTerm(e, parameters) ==
    LET vars == GetVariables(e)
    IN  IF IsSubsetOf(vars, parameters)
        THEN LumpedFactorization(<<Const(1)>>, <<e>>, Zero)
        ELSE IF vars \cap parameters = {}
        THEN LumpedFactorization(<<>>, <<>>, e)
        ELSE Thrown("NonSeparableNonlinearTerm")

\* The cross terms w_a * w_b.transpose() and alpha_a * alpha_b.transpose(),
\* |a| x |b| matrices that a comma initializer writes to the head of the
\* vectors w and alpha.  The initializer takes the matrix as a block of
\* the vector, which has one column: it is defined for |b| = 1, where the
\* entry (i, 1) goes to position i.  No call has |b| > 1 (CrossTermsFit).
OuterProduct(a, b) ==
    [k \in 1..(Len(a) * Len(b)) |-> Times(a[k], b[1])]

ScaleAll(w0, w) == [k \in 1..Len(w) |-> Times(w0, w[k])]

\* SimpleMultiplication without the tests of is_zero: the terms of a zero
\* w0_a or w0_b are written too.
SimpleMultiplicationKeepsZero(a, b) ==
    LumpedFactorization(
        OuterProduct(a.w, b.w) \o ScaleAll(a.w0, b.w) \o ScaleAll(b.w0, a.w),
        OuterProduct(a.alpha, b.alpha) \o b.alpha \o a.alpha,
        Times(a.w0, b.w0))

\* SimpleMultiplication without the terms w0_a * w_b.
SimpleMultiplicationDropsW0a(a, b) ==
    LET nonzero_w0b == ~ is_zero(b.w0)
    IN  LumpedFactorization(
            OuterProduct(a.w, b.w)
                \o (IF nonzero_w0b THEN ScaleAll(b.w0, a.w) ELSE <<>>),
            OuterProduct(a.alpha, b.alpha)
                \o (IF nonzero_w0b THEN a.alpha ELSE <<>>),
            Times(a.w0, b.w0))

\* e = a * b.
SimpleMultiplication(a, b) ==
    LET nonzero_w0a == ~ is_zero(a.w0)
        nonzero_w0b == ~ is_zero(b.w0)
    IN  LumpedFactorization(
            OuterProduct(a.w, b.w)
                \o (IF nonzero_w0a THEN ScaleAll(a.w0, b.w) ELSE <<>>)
                \o (IF nonzero_w0b THEN ScaleAll(b.w0, a.w) ELSE <<>>),
            OuterProduct(a.alpha, b.alpha)
                \o (IF nonzero_w0a THEN b.alpha ELSE <<>>)
                \o (IF nonzero_w0b THEN a.alpha ELSE <<>>),
            Times(a.w0, b.w0))

\* A std::map with no entry.
EmptyMap == [k \in {} |-> Zero]

\* An emplace that merges the entries of equal value: the entry that has
\* the value gets the sum of the two keys.
EmplaceAddByValue(map, key, value) ==
    IF \E k \in DOMAIN map : map[k] = value
    THEN LET old == CHOOSE k \in DOMAIN map : map[k] = value
         IN  [k \in (DOMAIN map \ {old}) \cup {Plus(old, key)} |->
                 IF k = Plus(old, key) THEN value ELSE map[k]]
    ELSE [k \in DOMAIN map \cup {key} |-> IF k = key THEN value ELSE map[k]]

\* w_map.emplace(key, 0).first->second += value.
EmplaceAdd(map, key, value) ==
    [k \in DOMAIN map \cup {key} |->
        IF k = key THEN Plus(IF key \in DOMAIN map THEN map[key] ELSE Zero, value)
        ELSE map[k]]

\* The loop over w_i with the key w_i[j] in place of c_i * w_i[j].
RECURSIVE EmplaceAddAllUnscaled(_, _, _, _)
EmplaceAddAllUnscaled(map, c, w, alpha) ==
    IF w = <<>> THEN map
    ELSE EmplaceAddAllUnscaled(EmplaceAdd(map, Head(w), Head(alpha)),
                               c, Tail(w), Tail(alpha))

\* The loop over w_i: alpha_i[j] is added to the entry of c_i * w_i[j].
RECURSIVE EmplaceAddAll(_, _, _, _)
EmplaceAddAll(map, c, w, alpha) ==
    IF w = <<>> THEN map
    ELSE EmplaceAddAll(EmplaceAdd(map, Scale(c, Head(w)), Head(alpha)),
                       c, Tail(w), Tail(alpha))

RECURSIVE Visit(_, _)

\* The loop of VisitMultiplication over the (base, exponent) pairs left in
\* `bases`, f the factorization of the factors already multiplied.
RECURSIVE MultiplyFactors(_, _, _, _)
MultiplyFactors(f, bases, m, parameters) ==
    IF bases = <<>> THEN f
    ELSE LET base_i == Head(bases)
             exponent_i == m[base_i]
             e_i == Term(1, Power(base_i, exponent_i))
             t == IF exponent_i = 1 THEN Visit(e_i, parameters)
                  ELSE VisitPow(e_i, parameters)
         IN  IF t.err # "" THEN t
             ELSE MultiplyFactors(SimpleMultiplication(f, t), Tail(bases), m,
                                  parameters)

\* e = c * prod_i pow(base_i, exponent_i).
VisitMultiplication(e, parameters) ==
    LET m == CHOOSE n \in DOMAIN e : TRUE
        c == e[m]
    IN  MultiplyFactors(LumpedFactorization(<<>>, <<>>, Const(c)),
                        SortAtoms(Bases(m)), m, parameters)

\* The loop of VisitAddition over the terms left in `terms`; acc holds w0
\* and w_map so far, or the exception a term's visit threw.
RECURSIVE AddTerms(_, _, _, _)
AddTerms(acc, terms, e, parameters) ==
    IF terms = <<>> THEN acc
    ELSE LET e_i == Term(1, Head(terms))
             c_i == e[Head(terms)]
             t == Visit(e_i, parameters)
         IN  IF t.err # "" THEN [acc EXCEPT !.err = t.err]
             ELSE AddTerms([err |-> "",
                            w0 |-> Plus(acc.w0, Scale(c_i, t.w0)),
                            w_map |-> EmplaceAddAll(acc.w_map, c_i, t.w, t.alpha)],
                           Tail(terms), e, parameters)

\* e = c0 + sum_i c_i * e_i: the weights c_i * w_i[j] are the keys of w_map,
\* the alphas of equal weights are summed, and w_map is read in key order.
VisitAddition(e, parameters) ==
    LET acc == AddTerms([err |-> "", w0 |-> Const(Coef(e, One)), w_map |-> EmptyMap],
                        SortMonos(DOMAIN e \ {One}), e, parameters)
        keys == SortExprs(DOMAIN acc.w_map)
    IN  IF acc.err # "" THEN Thrown(acc.err)
        ELSE LumpedFactorization(keys,
                                 [k \in 1..Len(keys) |-> acc.w_map[keys[k]]],
                                 acc.w0)

\* VisitExpression: the dispatch on the kind of e.
Visit(e, parameters) ==
    LET kind == get_kind(e)
    IN  CASE kind = "Constant" -> VisitConstant(e, parameters)
          [] kind = "Var" -> VisitVariable(e, parameters)
          [] kind = "Add" -> VisitAddition(e, parameters)
          [] kind = "Mul" -> VisitMultiplication(e, parameters)
          [] kind = "Pow" -> VisitPow(e, parameters)
          [] OTHER -> VisitNonPolynomialTerm(e, parameters)

\* DecomposeLumpedParametersVisitor::Decompose.
Decompose(e, parameters) == Visit(Expand(e), parameters)

----------------------------------------------------------------------------
(* DecomposeLumpedParameters(f, parameters).                               *)

\* The inputs: variables 1 and 2 are never parameters, 3 always is, 4 is
\* one in the first parameter list only.
ParameterLists == {{3, 4}, {3}}

Product(a, b) == MonoMul(Power(a, 1), Power(b, 1))

\* Terms that can be factored: 2, x1*p1, x2*p1, x1*p2.
SeparableTerms ==
    { Const(2),
      Term(1, Product(V(1), V(3))),
      Term(1, Product(V(2), V(3))),
      Term(1, Product(V(1), V(4))) }

\* Terms that mix a parameter and another variable under one operator:
\* sin(x1*p1), x2/p1, (x1+p1)^(-1), x1^p1.
MixedTerms ==
    { Term(1, Power(A("Sin", <<1, 3>>), 1)),
      Term(1, Power(A("Div", <<2, 3>>), 1)),
      Term(1, Power(A("Add", <<1, 3>>), -1)),
      Term(1, Power(A("Pow", <<1, 3>>), 1)) }

\* Sums of at most MaxTerms separable terms.
SeparableSums ==
    {SumOf(S) : S \in {T \in SUBSET SeparableTerms : Cardinality(T) <= MaxTerms}}

\* Products with powers and non-polynomial factors: 3*x1^2*p1,
\* x2*sin(p1) + x1, p1^2*p2 + p1.
PowerProducts ==
    { Flat(Term(3, MonoMul(Power(V(1), 2), Power(V(3), 1)))),
      Flat(Plus(Term(1, Product(V(2), A("Sin", <<3>>))), Term(1, Power(V(1), 1)))),
      Flat(Plus(Term(1, MonoMul(Power(V(3), 2), Power(V(4), 1))),
                Term(1, Power(V(3), 1)))) }

\* Trees with a product of sums: (x1 + x2) * p1, (x1 + 2) * (p1 + p2),
\* x2 + x2*sin(x1*p1) - (1 + sin(x1*p1)) * x2, whose mixed terms cancel in
\* the expansion, and x1*p1 + (x2 + 1) * sin(x1*p1).
ProductTrees ==
    { Tree(Zero,
           Plus(Term(1, Power(V(1), 1)), Term(1, Power(V(2), 1))),
           Term(1, Power(V(3), 1))),
      Tree(Zero,
           Plus(Term(1, Power(V(1), 1)), Const(2)),
           Plus(Term(1, Power(V(3), 1)), Term(1, Power(V(4), 1)))),
      Tree(Plus(Term(1, Power(V(2), 1)),
                Term(1, Product(V(2), A("Sin", <<1, 3>>)))),
           Plus(Const(1), Term(1, Power(A("Sin", <<1, 3>>), 1))),
           Term(-1, Power(V(2), 1))),
      Tree(Term(1, Product(V(1), V(3))),
           Plus(Term(1, Power(V(2), 1)), Const(1)),
           Term(1, Power(A("Sin", <<1, 3>>), 1))) }

\* A sum with two mixed terms: x1^p1 + sin(x1*p1).
MixedSums ==
    { Flat(Plus(Term(1, Power(A("Pow", <<1, 3>>), 1)),
                Term(1, Power(A("Sin", <<1, 3>>), 1)))) }

\* The expressions a row of f is drawn from.
LumpedRows ==
    {Flat(s) : s \in SeparableSums} \cup {Flat(t) : t \in MixedTerms}
        \cup PowerProducts \cup ProductTrees \cup MixedSums

\* The call: f has n rows, which are chosen as the loop reads them.
LpInit ==
    \E n \in 0..MaxRows : \E parameters \in ParameterLists :
        /\ lp = [pc |-> "loop", n |-> n, f |-> <<>>, parameters |-> parameters,
                 i |-> 0, w0 |-> <<>>, alpha_map |-> EmptyMap,
                 last |-> LumpedFactorization(<<>>, <<>>, Zero),
                 W |-> <<>>, alpha |-> <<>>, err |-> ""]
        /\ lin = Idle /\ quad = Idle /\ aff = Idle /\ idx = Idle /\ l2 = Idle
        /\ vis = Idle /\ app = Idle

\* VectorX<Expression>::Zero(n).
ZeroVector(n) == [k \in 1..n |-> Zero]

\* EmplaceAddAt that assigns w instead of adding it.
EmplaceAssignAt(map, key, n, i, w) ==
    [k \in DOMAIN map \cup {key} |->
        IF k = key
        THEN LET col == IF key \in DOMAIN map THEN map[key] ELSE ZeroVector(n)
             IN  [col EXCEPT ![i] = w]
        ELSE map[k]]

\* (alpha_map.emplace(key, Zero(n)).first->second)[i] += w.
EmplaceAddAt(map, key, n, i, w) ==
    [k \in DOMAIN map \cup {key} |->
        IF k = key
        THEN LET col == IF key \in DOMAIN map THEN map[key] ELSE ZeroVector(n)
             IN  [col EXCEPT ![i] = Plus(@, w)]
        ELSE map[k]]

RECURSIVE MergeRow(_, _, _, _, _)
MergeRow(map, w, alpha, n, i) ==
    IF alpha = <<>> THEN map
    ELSE MergeRow(EmplaceAddAt(map, Head(alpha), n, i, Head(w)),
                  Tail(w), Tail(alpha), n, i)

\* One iteration of the loop over the rows of f: row i is decomposed, its
\* w0 stored and its (w, alpha) pairs merged into alpha_map.
DecomposeRow ==
    /\ lp.pc = "loop"
    /\ lp.i < lp.n
    /\ \E e \in LumpedRows :
         LET t == Decompose(e, lp.parameters)
         IN  /\ t.err = ""
             /\ lp' = [lp EXCEPT !.f = Append(@, e),
                                 !.i = @ + 1,
                                 !.last = t,
                                 !.w0 = Append(@, t.w0),
                                 !.alpha_map = MergeRow(@, t.w, t.alpha,
                                                        lp.n, lp.i + 1)]
    /\ UNCHANGED <<lin, quad, aff, idx, l2, vis, app>>

\* The decomposition of row i throws: the call ends with the exception and
\* returns nothing.
DecomposeRowThrows ==
    /\ lp.pc = "loop"
    /\ lp.i < lp.n
    /\ \E e \in LumpedRows :
         LET t == Decompose(e, lp.parameters)
         IN  /\ t.err # ""
             /\ lp' = [lp EXCEPT !.f = Append(@, e),
                                 !.pc = "error", !.err = t.err, !.last = t,
                                 !.w0 = <<>>, !.alpha_map = EmptyMap]
    /\ UNCHANGED <<lin, quad, aff, idx, l2, vis, app>>

\* After the loop: alpha is the keys of alpha_map in order, column j of W
\* the value of key j; (W, alpha, w0) is returned.
AssembleLumped ==
    /\ lp.pc = "loop"
    /\ lp.i = lp.n
    /\ LET keys == SortExprs(DOMAIN lp.alpha_map)
       IN  lp' = [lp EXCEPT !.pc = "done",
                            !.alpha = keys,
                            !.W = [r \in 1..lp.n |->
                                     [j \in 1..Len(keys) |-> lp.alpha_map[keys[j]][r]]]]
    /\ UNCHANGED <<lin, quad, aff, idx, l2, vis, app>>

LpNext == DecomposeRow \/ DecomposeRowThrows \/ AssembleLumped

SpecLumped == LpInit /\ [][LpNext]_all_vars

----------------------------------------------------------------------------
(* Polynomial: the monomial_to_coefficient_map of an expression over a set *)
(* of indeterminates; the other variables stay in the coefficients.        *)

\* e.is_polynomial(): products of variables to positive integer powers.
is_polynomial(e) ==
    \A m \in DOMAIN e : \A a \in Bases(m) : AtomTable[a].kind = "Var" /\ m[a] > 0

IsIndeterminate(a, indeterminates) ==
    AtomTable[a].kind = "Var" /\ AtomTable[a].args[1] \in indeterminates

\* The part of the monomial m in the indeterminates, and the rest of it.
MonomialPart(m, indeterminates) ==
    [a \in Atoms |-> IF IsIndeterminate(a, indeterminates) THEN m[a] ELSE 0]

CoefficientPart(m, indeterminates) ==
    [a \in Atoms |-> IF IsIndeterminate(a, indeterminates) THEN 0 ELSE m[a]]

\* Polynomial{e, indeterminates}.monomial_to_coefficient_map().
Polynomial(e, indeterminates) ==
    [mi \in {MonomialPart(m, indeterminates) : m \in DOMAIN e} |->
        SumOf({Term(e[m], CoefficientPart(m, indeterminates)) :
                 m \in {n \in DOMAIN e : MonomialPart(n, indeterminates) = mi}})]

RECURSIVE SumExponents(_, _)
SumExponents(m, S) ==
    IF S = {} THEN 0
    ELSE LET a == CHOOSE x \in S : TRUE IN m[a] + SumExponents(m, S \ {a})

\* Monomial::total_degree() and Polynomial::TotalDegree().
total_degree(m) == SumExponents(m, Bases(m))

TotalDegree(p) ==
    IF DOMAIN p = {} THEN 0
    ELSE CHOOSE d \in {total_degree(m) : m \in DOMAIN p} :
            \A m \in DOMAIN p : total_degree(m) <= d

----------------------------------------------------------------------------
(* DecomposeLinearExpressions(expressions, vars, M).                       *)

\* FindCoefficientAndFill without the write of 0.0 for a missing monomial.
FindCoefficientAndFillKeeps(map, m, i, M) ==
    IF m \in DOMAIN map
    THEN IF ~ is_constant(map[m]) THEN [err |-> "non-constant", M |-> M]
         ELSE [err |-> "", M |-> [M EXCEPT ![i] = get_constant_value(map[m])]]
    ELSE [err |-> "", M |-> M]

\* M(i) becomes the coefficient of the monomial m in map, 0 when m is not
\* in map; a coefficient that is not a constant throws.
FindCoefficientAndFill(map, m, i, M) ==
    IF m \in DOMAIN map
    THEN IF ~ is_constant(map[m]) THEN [err |-> "non-constant", M |-> M]
         ELSE [err |-> "", M |-> [M EXCEPT ![i] = get_constant_value(map[m])]]
    ELSE [err |-> "", M |-> [M EXCEPT ![i] = 0]]

\* The loop "Fill M(i, j)" from column j on; it stops at the first throw.
RECURSIVE FillRow(_, _, _, _)
FillRow(map, variables, j, row) ==
    IF j > Len(variables) THEN [err |-> "", M |-> row]
    ELSE LET r == FindCoefficientAndFill(map, Power(V(variables[j]), 1), j, row)
         IN  IF r.err # "" THEN r
             ELSE FillRow(map, variables, j + 1, r.M)

\* The body of the loop over the expressions, for the expression e and the
\* row `row` of M.
LinearRow(e, variables, row) ==
    IF ~ is_polynomial(e) THEN [err |-> "non-polynomial", M |-> row]
    ELSE LET p == Polynomial(e, {variables[j] : j \in DOMAIN variables})
         IN  IF TotalDegree(p) > 1 THEN [err |-> "non-linear", M |-> row]
             ELSE IF One \in DOMAIN p
             THEN [err |-> "constant term", M |-> row]
             ELSE FillRow(p, variables, 1, row)

\* The inputs: the variable lists [x1, x2] and [x2, x1, x3], and sums of at
\* most MaxTerms of the terms 3, 2*x1, -x2, x1*x3, sin(x3).
LinearVars == {<<1, 2>>, <<2, 1, 3>>}

LinearTerms ==
    { Const(3),
      Term(2, Power(V(1), 1)),
      Term(-1, Power(V(2), 1)),
      Term(1, MonoMul(Power(V(1), 1), Power(V(3), 1))),
      Term(1, Power(A("Sin", <<3>>), 1)) }

LinearExpressions ==
    {SumOf(S) : S \in {T \in SUBSET LinearTerms : Cardinality(T) <= MaxTerms}}

\* The call: expressions has n rows, chosen as the loop reads them; M is
\* n by |vars| and holds what the caller left in it.
LinInit ==
    \E n \in 0..MaxRows : \E variables \in LinearVars :
        /\ lin = [pc |-> "loop", n |-> n, expressions |-> <<>>,
                  vars |-> variables, i |-> 0,
                  M |-> [r \in 1..n |-> [j \in 1..Len(variables) |-> 9]],
                  err |-> ""]
        /\ lp = Idle /\ quad = Idle /\ aff = Idle /\ idx = Idle /\ l2 = Idle
        /\ vis = Idle /\ app = Idle

\* One iteration of the loop: row i of M is filled.
LinearFillRow ==
    /\ lin.pc = "loop"
    /\ lin.i < lin.n
    /\ \E e \in LinearExpressions :
         LET r == LinearRow(e, lin.vars, lin.M[lin.i + 1])
         IN  /\ r.err = ""
             /\ lin' = [lin EXCEPT !.expressions = Append(@, e),
                                   !.i = @ + 1,
                                   !.M[lin.i + 1] = r.M]
    /\ UNCHANGED <<lp, quad, aff, idx, l2, vis, app>>

\* The iteration throws: the call ends, M keeps what was written.
LinearThrows ==
    /\ lin.pc = "loop"
    /\ lin.i < lin.n
    /\ \E e \in LinearExpressions :
         LET r == LinearRow(e, lin.vars, lin.M[lin.i + 1])
         IN  /\ r.err # ""
             /\ lin' = [lin EXCEPT !.expressions = Append(@, e),
                                   !.pc = "error", !.err = r.err,
                                   !.M[lin.i + 1] = r.M]
    /\ UNCHANGED <<lp, quad, aff, idx, l2, vis, app>>

LinearReturns ==
    /\ lin.pc = "loop"
    /\ lin.i = lin.n
    /\ lin' = [lin EXCEPT !.pc = "done"]
    /\ UNCHANGED <<lp, quad, aff, idx, l2, vis, app>>

LinNext == LinearFillRow \/ LinearThrows \/ LinearReturns

SpecLinear == LinInit /\ [][LinNext]_all_vars

\* e is affine in the listed variables: a constant plus numbers times
\* listed variables.
AffineIn(e, variables) ==
    \A m \in DOMAIN e :
        m = One \/ \E j \in DOMAIN variables : m = Power(V(variables[j]), 1)

\* C6: for an affine row e = sum_i c_i*x_i + c0 over the variable list,
\* the row of M is filled with M[row, i] = c_i (0 for a variable that is
\* not in e) when c0 = 0, and the call is rejected when c0 # 0.
LinearRecoversCoefficients ==
    \A r \in 1..Len(lin.expressions) :
        LET e == lin.expressions[r]
        IN  AffineIn(e, lin.vars) =>
                IF Coef(e, One) = 0
                THEN /\ r <= lin.i
                     /\ \A j \in 1..Len(lin.vars) :
                            lin.M[r][j] = Coef(e, Power(V(lin.vars[j]), 1))
                ELSE /\ lin.pc = "error"
                     /\ lin.err = "constant term"
                     /\ r = lin.i + 1

\* Both cases have happened: the first row, 2*x1 with no x2 in it, gave
\* (2, 0) in the order of the list, and the second was rejected for its
\* constant.
LinearRecoversCoefficientsWitness ==
    /\ lin.pc = "error"
    /\ Len(lin.expressions) = 2
    /\ lin.vars = <<2, 1, 3>>
    /\ lin.expressions[1] = Term(2, Power(V(1), 1))
    /\ lin.M[1] = <<0, 2, 0>>
    /\ AffineIn(lin.expressions[2], lin.vars)
    /\ Coef(lin.expressions[2], One) # 0

----------------------------------------------------------------------------
(* DecomposeQuadraticPolynomial(poly, map_var_to_index, Q, b, c).          *)
(* Q is a function of the index pairs <<i, j>>, b of the indices, both     *)
(* counted from 0 as in the code.                                          *)

\* The variable ids of monomial_powers, in the order of the map (by id).
monomial_powers(m) == SortIds({AtomTable[a].args[1] : a \in Bases(m)})

\* The handling of one monomial with a diagonal entry that is not doubled.
QuadraticTermPlain(Q, b, c, m, coefficient, map_var_to_index) ==
    LET powers == monomial_powers(m)
    IN  IF Len(powers) = 2
        THEN LET x1_index == map_var_to_index[powers[1]]
                 x2_index == map_var_to_index[powers[2]]
                 q == Q[<<x1_index, x2_index>>] + coefficient
             IN  [Q |-> [Q EXCEPT ![<<x1_index, x2_index>>] = q,
                                  ![<<x2_index, x1_index>>] = q],
                  b |-> b, c |-> c]
        ELSE IF Len(powers) = 1
        THEN LET x_index == map_var_to_index[powers[1]]
             IN  IF m[V(powers[1])] = 2
                 THEN [Q |-> [Q EXCEPT ![<<x_index, x_index>>] = @ + coefficient],
                       b |-> b, c |-> c]
                 ELSE [Q |-> Q, b |-> [b EXCEPT ![x_index] = @ + coefficient],
                       c |-> c]
        ELSE [Q |-> Q, b |-> b, c |-> c + coefficient]

\* The body of the loop for a monomial of total degree at most 2 whose
\* variables are keys of map_var_to_index: a cross term, a quadratic term
\* (the entry of Q is twice the coefficient), a linear or the constant term.
QuadraticTerm(Q, b, c, m, coefficient, map_var_to_index) ==
    LET powers == monomial_powers(m)
    IN  IF Len(powers) = 2
        THEN LET x1_index == map_var_to_index[powers[1]]
                 x2_index == map_var_to_index[powers[2]]
                 q == Q[<<x1_index, x2_index>>] + coefficient
             IN  [Q |-> [Q EXCEPT ![<<x1_index, x2_index>>] = q,
                                  ![<<x2_index, x1_index>>] = q],
                  b |-> b, c |-> c]
        ELSE IF Len(powers) = 1
        THEN LET x_index == map_var_to_index[powers[1]]
             IN  IF m[V(powers[1])] = 2
                 THEN [Q |-> [Q EXCEPT ![<<x_index, x_index>>] = @ + 2 * coefficient],
                       b |-> b, c |-> c]
                 ELSE [Q |-> Q, b |-> [b EXCEPT ![x_index] = @ + coefficient],
                       c |-> c]
        ELSE [Q |-> Q, b |-> b, c |-> c + coefficient]

\* What stops the loop at the monomial m: a degree above 2, or a variable
\* that map_var_to_index.at() does not find.
QuadraticTermError(m, map_var_to_index) ==
    IF total_degree(m) > 2 THEN "order higher than 2"
    ELSE IF \E id \in MonoVariables(m) : id \notin DOMAIN map_var_to_index
    THEN "out_of_range"
    ELSE ""

\* The inputs: polynomials with numbers as coefficients, sums of at most
\* MaxTerms of 3, 2*x1, -x2, x1^2, 2*x1*x2, 4*x3, x1^2*x2; index maps
\* over {x1, x2} and {x1, x2, x3}.
QuadraticTerms ==
    { Const(3),
      Term(2, Power(V(1), 1)),
      Term(-1, Power(V(2), 1)),
      Term(1, Power(V(1), 2)),
      Term(2, MonoMul(Power(V(1), 1), Power(V(2), 1))),
      Term(4, Power(V(3), 1)),
      Term(1, MonoMul(Power(V(1), 2), Power(V(2), 1))) }

QuadraticPolynomials ==
    {SumOf(S) : S \in {T \in SUBSET QuadraticTerms : Cardinality(T) <= MaxTerms}}

IndexMaps ==
    { [id \in {1, 2} |-> id - 1],
      [id \in {1, 2} |-> 2 - id],
      [id \in {1, 2, 3} |-> (id + 1) % 3] }

\* The call: Q, b and c hold what the caller left in them.
QuadInit ==
    \E e \in QuadraticPolynomials : \E map \in IndexMaps :
    \E g \in {0, 5} :
        LET num_variables == Cardinality(DOMAIN map)
            poly == Polynomial(e, GetVariables(e))
        IN  /\ quad = [pc |-> "start", poly |-> poly, map_var_to_index |-> map,
                       Q |-> [ij \in (0..num_variables - 1) \X (0..num_variables - 1)
                                 |-> g * (ij[1] + 1) + ij[2]],
                       b |-> [i \in 0..num_variables - 1 |-> g],
                       c |-> g, rest |-> {}, err |-> ""]
            /\ lp = Idle /\ lin = Idle /\ aff = Idle /\ idx = Idle /\ l2 = Idle
            /\ vis = Idle /\ app = Idle

\* Q->setZero(); b->setZero(); *c = 0;
QuadSetZero ==
    /\ quad.pc = "start"
    /\ quad' = [quad EXCEPT !.pc = "loop",
                            !.Q = [ij \in DOMAIN quad.Q |-> 0],
                            !.b = [i \in DOMAIN quad.b |-> 0],
                            !.c = 0,
                            !.rest = DOMAIN quad.poly]
    /\ UNCHANGED <<lp, lin, aff, idx, l2, vis, app>>

\* One iteration over the unordered monomial_to_coefficient_map.
QuadTerm ==
    /\ quad.pc = "loop"
    /\ \E m \in quad.rest :
         /\ QuadraticTermError(m, quad.map_var_to_index) = ""
         /\ LET r == QuadraticTerm(quad.Q, quad.b, quad.c, m,
                                   get_constant_value(quad.poly[m]),
                                   quad.map_var_to_index)
            IN  quad' = [quad EXCEPT !.Q = r.Q, !.b = r.b, !.c = r.c,
                                     !.rest = @ \ {m}]
    /\ UNCHANGED <<lp, lin, aff, idx, l2, vis, app>>

QuadThrows ==
    /\ quad.pc = "loop"
    /\ \E m \in quad.rest :
         /\ QuadraticTermError(m, quad.map_var_to_index) # ""
         /\ quad' = [quad EXCEPT !.pc = "error",
                                 !.err = QuadraticTermError(m, quad.map_var_to_index)]
    /\ UNCHANGED <<lp, lin, aff, idx, l2, vis, app>>

QuadReturns ==
    /\ quad.pc = "loop"
    /\ quad.rest = {}
    /\ quad' = [quad EXCEPT !.pc = "done"]
    /\ UNCHANGED <<lp, lin, aff, idx, l2, vis, app>>

QuadNext == QuadSetZero \/ QuadTerm \/ QuadThrows \/ QuadReturns

SpecQuad == QuadInit /\ [][QuadNext]_all_vars

\* The sum of f[k] over the set S of arguments of f.
RECURSIVE SumFn(_, _)
SumFn(f, S) ==
    IF S = {} THEN Zero
    ELSE LET k == CHOOSE x \in S : TRUE IN Plus(f[k], SumFn(f, S \ {k}))

\* The variable whose index is i.
VariableAt(map_var_to_index, i) ==
    CHOOSE id \in DOMAIN map_var_to_index : map_var_to_index[id] = i

\* x'Qx + 2*b'x + 2*c, all terms expanded and collected.
TwiceQuadraticForm(Q, b, c, map_var_to_index) ==
    LET x(i) == Power(V(VariableAt(map_var_to_index, i)), 1)
        qf == [ij \in DOMAIN Q |-> Term(Q[ij], MonoMul(x(ij[1]), x(ij[2])))]
        bf == [i \in DOMAIN b |-> Term(2 * b[i], x(i))]
    IN  Plus(SumFn(qf, DOMAIN Q), Plus(SumFn(bf, DOMAIN b), Const(2 * c)))

\* The polynomial p as an expression: the sum of coefficient * monomial.
ToExpression(p) ==
    SumFn([m \in DOMAIN p |-> Times(p[m], Term(1, m))], DOMAIN p)

QuadraticInput ==
    /\ TotalDegree(quad.poly) <= 2
    /\ GetVariables(quad.poly) \subseteq DOMAIN quad.map_var_to_index

\* C7: for a polynomial of total degree at most 2 over the variables of
\* the index map the call does not fail, and when it returns Q is symmetric
\* and 0.5*x'Qx + b'x + c has the coefficients of the polynomial (stated
\* as x'Qx + 2*b'x + 2*c = 2*poly), whatever Q, b and c held before.
QuadraticReproducesPolynomial ==
    (quad.pc # "idle" /\ QuadraticInput) =>
        /\ quad.pc # "error"
        /\ quad.pc = "done" =>
              /\ \A ij \in DOMAIN quad.Q : quad.Q[ij] = quad.Q[<<ij[2], ij[1]>>]
              /\ TwiceQuadraticForm(quad.Q, quad.b, quad.c, quad.map_var_to_index)
                    = Scale(2, ToExpression(quad.poly))

\* The call returned for x1^2 + 2*x1*x2, with buffers that held other
\* numbers: Q = [[2, 2], [2, 0]].
QuadraticReproducesPolynomialWitness ==
    /\ quad.pc = "done"
    /\ ToExpression(quad.poly)
          = Plus(Term(1, Power(V(1), 2)),
                 Term(2, MonoMul(Power(V(1), 1), Power(V(2), 1))))
    /\ quad.map_var_to_index = [id \in {1, 2} |-> id - 1]
    /\ quad.Q[<<0, 0>>] = 2 /\ quad.Q[<<0, 1>>] = 2 /\ quad.Q[<<1, 0>>] = 2
    /\ quad.Q[<<1, 1>>] = 0

----------------------------------------------------------------------------
(* IsAffine(m, vars) and IsAffineVisitor.                                  *)

\* IsAffineVisitor::IsNotAffine with variables_ set.
IsNotAffine(e, variables_) ==
    IF ~ is_polynomial(e) THEN TRUE
    ELSE TotalDegree(Polynomial(e, variables_)) > 1

\* The inputs: the coefficients of m in the order of the visit, among
\* 3, 2*x1, x1*x2, x2*sin(x3), x1^2, x1*x3, and the sets of variables.
AffineEntries ==
    { Const(3),
      Term(2, Power(V(1), 1)),
      Term(1, MonoMul(Power(V(1), 1), Power(V(2), 1))),
      Term(1, MonoMul(Power(V(2), 1), Power(A("Sin", <<3>>), 1))),
      Term(1, Power(V(1), 2)),
      Term(1, MonoMul(Power(V(1), 1), Power(V(3), 1))) }

AffineVars == {{1, 2}, {2}, {1, 2, 3}}

\* The call: m has n coefficients, chosen as the visit reads them.
AffInit ==
    \E n \in 0..MaxRows : \E variables \in AffineVars :
        /\ aff = [pc |-> "start", n |-> n, m |-> <<>>, vars |-> variables,
                  found_non_affine_element_ |-> FALSE, result |-> FALSE]
        /\ lp = Idle /\ lin = Idle /\ quad = Idle /\ idx = Idle /\ l2 = Idle
        /\ vis = Idle /\ app = Idle

\* if (m.size() == 0) return true;
AffineEmpty ==
    /\ aff.pc = "start"
    /\ aff.n = 0
    /\ aff' = [aff EXCEPT !.pc = "done", !.result = TRUE]
    /\ UNCHANGED <<lp, lin, quad, idx, l2, vis, app>>

\* The visitor is called for the next coefficient.
AffineVisit ==
    /\ aff.pc \in {"start", "visit"}
    /\ Len(aff.m) < aff.n
    /\ \E e \in AffineEntries :
         aff' = [aff EXCEPT !.pc = "visit",
                            !.m = Append(@, e),
                            !.found_non_affine_element_ =
                                @ \/ IsNotAffine(e, aff.vars)]
    /\ UNCHANGED <<lp, lin, quad, idx, l2, vis, app>>

\* return visitor.result();
AffineResult ==
    /\ aff.pc = "visit"
    /\ Len(aff.m) = aff.n
    /\ aff' = [aff EXCEPT !.pc = "done",
                          !.result = ~ aff.found_non_affine_element_]
    /\ UNCHANGED <<lp, lin, quad, idx, l2, vis, app>>

AffNext == AffineEmpty \/ AffineVisit \/ AffineResult

SpecAffine == AffInit /\ [][AffNext]_all_vars

\* e has total degree at most 1 with respect to the variables: in every
\* term, the factors that mention one of them are at most one of the
\* variables itself, to the power 1.
DegreeAtMostOneIn(e, variables) ==
    \A m \in DOMAIN e :
        LET involved == {a \in Bases(m) : AtomVariables(a) \cap variables # {}}
        IN  \/ involved = {}
            \/ \E a \in involved :
                  /\ involved = {a}
                  /\ IsIndeterminate(a, variables)
                  /\ m[a] = 1

\* C8: IsAffine(m, vars) returns true when every entry of m has total
\* degree at most 1 with respect to vars, also for an entry that is
\* non-polynomial only in variables outside vars.
RestrictedAffineClassified ==
    (aff.pc = "done"
       /\ \A k \in 1..Len(aff.m) : DegreeAtMostOneIn(aff.m[k], aff.vars))
    => aff.result = TRUE

\* The entry x2*sin(x3) with vars = {x2}: of degree 1 in x2, answered false.
RestrictedAffineMisclassified ==
    /\ aff.pc = "done"
    /\ aff.vars = {2}
    /\ aff.m = << Term(1, MonoMul(Power(V(2), 1), Power(A("Sin", <<3>>), 1))) >>
    /\ aff.result = FALSE

----------------------------------------------------------------------------
(* ExtractVariablesFromExpression(e) and (expressions).                    *)

\* The position of id in the sequence s, counted from 0.
IndexOf(s, id) == (CHOOSE k \in DOMAIN s : s[k] = id) - 1

\* The overload for one expression: the variables in the order of the
\* set e.GetVariables(), each with its position.
ExtractVariablesFromExpression(e) ==
    LET var_set == SortIds(GetVariables(e))
    IN  [vars |-> var_set,
         map_var_to_index |-> [id \in GetVariables(e) |-> IndexOf(var_set, id)]]

\* The inner loop without the test of map_var_to_index.contains().
RECURSIVE AppendVariablesUnchecked(_, _, _)
AppendVariablesUnchecked(var_vec, map_var_to_index, ids) ==
    IF ids = <<>> THEN [vars |-> var_vec, map_var_to_index |-> map_var_to_index]
    ELSE LET id == Head(ids)
         IN  AppendVariablesUnchecked(
                 Append(var_vec, id),
                 IF id \in DOMAIN map_var_to_index THEN map_var_to_index
                 ELSE map_var_to_index @@ (id :> Len(var_vec)),
                 Tail(ids))

\* The inner loop of the overload for a vector: the variables ids of one
\* expression, in the order of its set, are appended when they are new.
RECURSIVE AppendVariables(_, _, _)
AppendVariables(var_vec, map_var_to_index, ids) ==
    IF ids = <<>> THEN [vars |-> var_vec, map_var_to_index |-> map_var_to_index]
    ELSE LET id == Head(ids)
         IN  IF id \notin DOMAIN map_var_to_index
             THEN AppendVariables(Append(var_vec, id),
                                  map_var_to_index @@ (id :> Len(var_vec)),
                                  Tail(ids))
             ELSE AppendVariables(var_vec, map_var_to_index, Tail(ids))

\* The inputs: 3, x1, x1 + x2, x2*x3, pow(x3, x1), x2 + sin(x3), x4.
IndexedExpressions ==
    { Const(3),
      Term(1, Power(V(1), 1)),
      Plus(Term(1, Power(V(1), 1)), Term(1, Power(V(2), 1))),
      Term(1, MonoMul(Power(V(2), 1), Power(V(3), 1))),
      Term(1, Power(A("Pow", <<3, 1>>), 1)),
      Plus(Term(1, Power(V(2), 1)), Term(1, Power(A("Sin", <<3>>), 1))),
      Term(1, Power(V(4), 1)) }

EmptyIndex == [id \in {} |-> 0]

\* A call of one of the two overloads; the vector has n expressions,
\* chosen as the loop reads them.
IdxInit ==
    \E overload \in {"expression", "vector"} :
    \E n \in 0..MaxRows :
        /\ overload = "expression" => n = 1
        /\ idx = [pc |-> "loop", overload |-> overload, n |-> n,
                  expressions |-> <<>>, vars |-> <<>>,
                  map_var_to_index |-> EmptyIndex]
        /\ lp = Idle /\ lin = Idle /\ quad = Idle /\ aff = Idle /\ l2 = Idle
        /\ vis = Idle /\ app = Idle

\* ExtractVariablesFromExpression(e), the whole call.
ExtractFromExpression ==
    /\ idx.pc = "loop"
    /\ idx.overload = "expression"
    /\ \E e \in IndexedExpressions :
         LET r == ExtractVariablesFromExpression(e)
         IN  idx' = [idx EXCEPT !.pc = "done", !.expressions = <<e>>,
                                !.vars = r.vars,
                                !.map_var_to_index = r.map_var_to_index]
    /\ UNCHANGED <<lp, lin, quad, aff, l2, vis, app>>

\* One iteration of the outer loop of the overload for a vector.
ExtractFromRow ==
    /\ idx.pc = "loop"
    /\ idx.overload = "vector"
    /\ Len(idx.expressions) < idx.n
    /\ \E e \in IndexedExpressions :
         LET r == AppendVariables(idx.vars, idx.map_var_to_index,
                                  SortIds(GetVariables(e)))
         IN  idx' = [idx EXCEPT !.expressions = Append(@, e),
                                !.vars = r.vars,
                                !.map_var_to_index = r.map_var_to_index]
    /\ UNCHANGED <<lp, lin, quad, aff, l2, vis, app>>

ExtractReturns ==
    /\ idx.pc = "loop"
    /\ idx.overload = "vector"
    /\ Len(idx.expressions) = idx.n
    /\ idx' = [idx EXCEPT !.pc = "done"]
    /\ UNCHANGED <<lp, lin, quad, aff, l2, vis, app>>

IdxNext == ExtractFromExpression \/ ExtractFromRow \/ ExtractReturns

SpecIndex == IdxInit /\ [][IdxNext]_all_vars

\* The variables met by a depth-first scan, left to right, of an atom, a
\* product, an expression and a sequence of expressions.
RECURSIVE ScanAtoms(_)
ScanAtoms(atoms) ==
    IF atoms = <<>> THEN <<>>
    ELSE AtomTable[Head(atoms)].args \o ScanAtoms(Tail(atoms))

RECURSIVE ScanMonos(_)
ScanMonos(monos) ==
    IF monos = <<>> THEN <<>>
    ELSE ScanAtoms(SortAtoms(Bases(Head(monos))))
            \o ScanMonos(Tail(monos))

RECURSIVE ScanExpressions(_)
ScanExpressions(es) ==
    IF es = <<>> THEN <<>>
    ELSE ScanMonos(SortMonos(DOMAIN Head(es))) \o ScanExpressions(Tail(es))

\* The sequence s without the repetitions of an earlier element.
RECURSIVE FirstOccurrences(_)
FirstOccurrences(s) ==
    IF s = <<>> THEN <<>>
    ELSE LET r == FirstOccurrences(SubSeq(s, 1, Len(s) - 1))
             x == s[Len(s)]
         IN  IF \E k \in DOMAIN r : r[k] = x THEN r ELSE Append(r, x)

AllVariables(es) == UNION {GetVariables(es[k]) : k \in DOMAIN es}

\* The first expression of es that has the variable id.
FirstExpressionWith(es, id) ==
    CHOOSE k \in DOMAIN es :
        /\ id \in GetVariables(es[k])
        /\ \A j \in 1..(k - 1) : id \notin GetVariables(es[j])

\* Every distinct variable once, and the map gives its position.
IndexedOnce ==
    /\ Len(idx.vars) = Cardinality(AllVariables(idx.expressions))
    /\ {idx.vars[k] : k \in DOMAIN idx.vars} = AllVariables(idx.expressions)
    /\ DOMAIN idx.map_var_to_index = AllVariables(idx.expressions)
    /\ \A k \in DOMAIN idx.vars : idx.map_var_to_index[idx.vars[k]] = k - 1

\* C9 as stated: the variables come in the order of their first occurrence
\* in a depth-first scan of the expression or of the sequence.
IndexedInScanOrder ==
    idx.pc = "done" =>
        /\ IndexedOnce
        /\ idx.vars = FirstOccurrences(ScanExpressions(idx.expressions))

\* C9: every distinct variable is returned once and the map sends its id
\* to its position; the order is the order of the variable ids within an
\* expression and, for a sequence, the order of the first expression that
\* has the variable, then of the ids.
IndexedInIdOrder ==
    idx.pc = "done" =>
        /\ IndexedOnce
        /\ \A j, k \in DOMAIN idx.vars :
              j < k =>
                LET fj == FirstExpressionWith(idx.expressions, idx.vars[j])
                    fk == FirstExpressionWith(idx.expressions, idx.vars[k])
                IN  fj < fk \/ (fj = fk /\ idx.vars[j] < idx.vars[k])

\* A sequence whose second expression repeats a variable of the first and
\* brings a smaller one: [x2*x3, pow(x3, x1)] gives x2, x3, x1.
IndexedInIdOrderWitness ==
    /\ idx.pc = "done"
    /\ idx.overload = "vector"
    /\ idx.expressions = << Term(1, MonoMul(Power(V(2), 1), Power(V(3), 1))),
                            Term(1, Power(A("Pow", <<3, 1>>), 1)) >>
    /\ idx.vars = <<2, 3, 1>>

----------------------------------------------------------------------------
(* DecomposeL2NormExpression(e, psd_tol, coefficient_tol).                 *)
(* A double is a number or NaN; a comparison with NaN is false.            *)

Double(v) == [nan |-> FALSE, value |-> v]

NaN == [nan |-> TRUE, value |-> 0]

GreaterEqual(t, v) == ~ t.nan /\ t.value >= v

Less(t, v) == ~ t.nan /\ t.value < v

\* The two checks with only psd_tol tested.
TolerancesAcceptedPsdOnly(psd_tol, coefficient_tol) ==
    GreaterEqual(psd_tol, 0)

\* DRAKE_THROW_UNLESS(psd_tol >= 0); DRAKE_THROW_UNLESS(coefficient_tol >= 0);
TolerancesAccepted(psd_tol, coefficient_tol) ==
    GreaterEqual(psd_tol, 0) /\ GreaterEqual(coefficient_tol, 0)

\* The whole loop of DecomposeQuadraticPolynomial after the buffers are
\* set to zero, over the monomials `rest`.
RECURSIVE QuadraticLoop(_, _, _, _, _, _)
QuadraticLoop(poly, map_var_to_index, Q, b, c, rest) ==
    IF rest = {} THEN [err |-> "", Q |-> Q, b |-> b, c |-> c]
    ELSE LET m == CHOOSE x \in rest : \A y \in rest : x = y \/ MonoLess(x, y)
             what == QuadraticTermError(m, map_var_to_index)
         IN  IF what # "" THEN [err |-> what, Q |-> Q, b |-> b, c |-> c]
             ELSE LET r == QuadraticTerm(Q, b, c, m, get_constant_value(poly[m]),
                                         map_var_to_index)
                  IN  QuadraticLoop(poly, map_var_to_index, r.Q, r.b, r.c,
                                    rest \ {m})

DecomposeQuadraticPolynomial(poly, map_var_to_index) ==
    LET num_variables == Cardinality(DOMAIN map_var_to_index)
    IN  QuadraticLoop(poly, map_var_to_index,
                      [ij \in (0..num_variables - 1) \X (0..num_variables - 1) |-> 0],
                      [i \in 0..num_variables - 1 |-> 0], 0, DOMAIN poly)

\* The three tests of the shape of e = sqrt(arg) or e = arg.
IsSqrtOfQuadratic(e) ==
    /\ e.sqrt
    /\ is_polynomial(e.arg)
    /\ TotalDegree(Polynomial(e.arg, GetVariables(e.arg))) = 2

\* The inputs: e is arg or sqrt(arg), arg a sum of at most MaxTerms of
\* 1, x1^2, x2^2, 2*x1*x2, -2*x1, sin(x3), x1^2*x2; the tolerances are
\* -1, 0, 1 or NaN.
L2Terms ==
    { Const(1),
      Term(1, Power(V(1), 2)),
      Term(1, Power(V(2), 2)),
      Term(2, MonoMul(Power(V(1), 1), Power(V(2), 1))),
      Term(-2, Power(V(1), 1)),
      Term(1, Power(A("Sin", <<3>>), 1)),
      Term(1, MonoMul(Power(V(1), 2), Power(V(2), 1))) }

L2Arguments ==
    {SumOf(S) : S \in {T \in SUBSET L2Terms : Cardinality(T) <= MaxTerms}}

Tolerances == {Double(-1), Double(0), Double(1), NaN}

L2Init ==
    \E sqrt \in BOOLEAN : \E arg \in L2Arguments :
    \E psd_tol \in Tolerances : \E coefficient_tol \in Tolerances :
        /\ l2 = [pc |-> "start", e |-> [sqrt |-> sqrt, arg |-> arg],
                 psd_tol |-> psd_tol, coefficient_tol |-> coefficient_tol,
                 vars |-> <<>>, Q |-> <<>>, r |-> <<>>, s |-> 0,
                 result |-> FALSE, err |-> ""]
        /\ lp = Idle /\ lin = Idle /\ quad = Idle /\ aff = Idle /\ idx = Idle
        /\ vis = Idle /\ app = Idle

\* The checks of the tolerances.
L2CheckTolerances ==
    /\ l2.pc = "start"
    /\ l2' = IF TolerancesAccepted(l2.psd_tol, l2.coefficient_tol)
             THEN [l2 EXCEPT !.pc = "shape"]
             ELSE [l2 EXCEPT !.pc = "error", !.err = "DRAKE_THROW_UNLESS"]
    /\ UNCHANGED <<lp, lin, quad, aff, idx, vis, app>>

\* e is not a square root, or not of a polynomial of degree 2.
L2RejectsShape ==
    /\ l2.pc = "shape"
    /\ ~ IsSqrtOfQuadratic(l2.e)
    /\ l2' = [l2 EXCEPT !.pc = "done", !.result = FALSE]
    /\ UNCHANGED <<lp, lin, quad, aff, idx, vis, app>>

\* The variables of e are indexed and the polynomial is decomposed into
\* 0.5*x'Qx + r'x + s.
L2DecomposesQuadratic ==
    /\ l2.pc = "shape"
    /\ IsSqrtOfQuadratic(l2.e)
    /\ LET e_extracted == ExtractVariablesFromExpression(l2.e.arg)
           poly == Polynomial(l2.e.arg, GetVariables(l2.e.arg))
           d == DecomposeQuadraticPolynomial(poly, e_extracted.map_var_to_index)
       IN  l2' = IF d.err # ""
                 THEN [l2 EXCEPT !.pc = "error", !.err = d.err,
                                 !.vars = e_extracted.vars]
                 ELSE [l2 EXCEPT !.pc = "numeric", !.vars = e_extracted.vars,
                                 !.Q = d.Q, !.r = d.b, !.s = d.c]
    /\ UNCHANGED <<lp, lin, quad, aff, idx, vis, app>>

\* The factorization of 0.5*Q, the least-squares solve and the tests of
\* the residual and of the constant are done by the linear-algebra
\* library: each of the four returns is possible.
L2Numeric ==
    /\ l2.pc = "numeric"
    /\ \E recognized \in BOOLEAN :
         l2' = [l2 EXCEPT !.pc = "done", !.result = recognized]
    /\ UNCHANGED <<lp, lin, quad, aff, idx, vis, app>>

L2Next ==
    L2CheckTolerances \/ L2RejectsShape \/ L2DecomposesQuadratic \/ L2Numeric

SpecL2 == L2Init /\ [][L2Next]_all_vars

\* A returned false for every e that is not the square root of a
\* polynomial of total degree 2.
L2ShapeRejected ==
    (l2.pc = "done" /\ ~ IsSqrtOfQuadratic(l2.e)) => l2.result = FALSE

\* C10 as stated: the call fails exactly when a tolerance is less than 0.
L2ErrorIffNegativeTolerance ==
    /\ l2.pc \notin {"idle", "start"} =>
          (l2.pc = "error" <=>
              (Less(l2.psd_tol, 0) \/ Less(l2.coefficient_tol, 0)))
    /\ L2ShapeRejected

\* C10: the call fails exactly when a tolerance is not >= 0, that is
\* negative or NaN, also for an e that the shape tests would reject; with
\* both tolerances >= 0 it returns, and returns false when e is not the
\* square root of a polynomial of total degree 2.
L2ErrorIffToleranceNotAccepted ==
    /\ l2.pc \notin {"idle", "start"} =>
          (l2.pc = "error" <=>
              ~ (GreaterEqual(l2.psd_tol, 0) /\ GreaterEqual(l2.coefficient_tol, 0)))
    /\ L2ShapeRejected

\* The call failed for coefficient_tol = -1 on an e that is no square root.
L2ErrorIffToleranceNotAcceptedWitness ==
    /\ l2.pc = "error"
    /\ ~ l2.e.sqrt
    /\ l2.psd_tol = Double(0)
    /\ l2.coefficient_tol = Double(-1)

----------------------------------------------------------------------------
(* Properties of DecomposeLumpedParameters.                                *)

RECURSIVE DotProduct(_, _)
DotProduct(w, alpha) ==
    IF w = <<>> THEN Zero
    ELSE Plus(Times(Head(w), Head(alpha)), DotProduct(Tail(w), Tail(alpha)))

\* C1: when DecomposeLumpedParameters returns (W, alpha, w0), the expansion
\* of row r of W * alpha + w0 is the expansion of f[r], for every row r.
LumpedRoundTrip ==
    lp.pc = "done" =>
        \A r \in 1..lp.n :
            Plus(DotProduct(lp.W[r], lp.alpha), lp.w0[r]) = Expand(lp.f[r])

\* A returned factorization of two rows, one of them a product of sums,
\* with two basis functions or more.
LumpedRoundTripWitness ==
    /\ lp.pc = "done"
    /\ lp.n = 2
    /\ Len(lp.alpha) >= 2
    /\ \E r \in 1..2 : lp.f[r].u # Zero

\* C2: in the triple the scalar factorization returns, no element of w and
\* not w0 holds a parameter, every element of alpha holds parameters only,
\* and w and alpha have the same length.
VariableSeparation ==
    lp.last.err = "" =>
        /\ Len(lp.last.w) = Len(lp.last.alpha)
        /\ GetVariables(lp.last.w0) \cap lp.parameters = {}
        /\ \A k \in 1..Len(lp.last.w) :
            /\ GetVariables(lp.last.w[k]) \cap lp.parameters = {}
            /\ GetVariables(lp.last.alpha[k]) \subseteq lp.parameters

\* A returned triple of a sum with two weights, a remainder, and a weight
\* and an alpha that are not constants.
VariableSeparationWitness ==
    /\ lp.i > 0
    /\ lp.last.err = ""
    /\ Len(lp.last.w) >= 2
    /\ ~ is_constant(lp.last.w0)
    /\ \E k \in 1..Len(lp.last.w) :
        ~ is_constant(lp.last.w[k]) /\ ~ is_constant(lp.last.alpha[k])

\* The expression a*p1 + b*p1 with a = x1, b = x2.
SharedParameterSum ==
    Flat(Plus(Term(1, Product(V(1), V(3))), Term(1, Product(V(2), V(3)))))

\* C3 as stated: the factorization of a*p1 + b*p1 (VisitAddition, which
\* merges by weight key) has exactly one (weight, alpha) entry.
SharedParameterMergedByWeight ==
    (lp.i > 0 /\ lp.f[lp.i] = SharedParameterSum /\ lp.last.err = "") =>
        Len(lp.last.w) = 1

\* C3 amended: the scalar factorization of a*p1 + b*p1 has the two entries
\* (a, p1) and (b, p1), and DecomposeLumpedParameters of the one-row vector
\* returns the single column W = [[a + b]], alpha = [p1], w0 = [0].
SharedParameterMergedByAlpha ==
    /\ (lp.i > 0 /\ lp.f[lp.i] = SharedParameterSum /\ lp.pc # "error") =>
            /\ lp.last.w = <<Term(1, Power(V(1), 1)), Term(1, Power(V(2), 1))>>
            /\ lp.last.alpha = <<Term(1, Power(V(3), 1)), Term(1, Power(V(3), 1))>>
            /\ lp.last.w0 = Zero
    /\ (lp.pc = "done" /\ lp.f = <<SharedParameterSum>>) =>
            /\ lp.alpha = <<Term(1, Power(V(3), 1))>>
            /\ lp.W = << <<Plus(Term(1, Power(V(1), 1)), Term(1, Power(V(2), 1)))>> >>
            /\ lp.w0 = <<Zero>>

SharedParameterWitness ==
    lp.pc = "done" /\ lp.f = <<SharedParameterSum>>

\* The sum of the weights that the factorization t pairs with alpha.
RECURSIVE WeightsOf(_, _, _)
WeightsOf(w, alphas, alpha) ==
    IF w = <<>> THEN Zero
    ELSE Plus(IF Head(alphas) = alpha THEN Head(w) ELSE Zero,
              WeightsOf(Tail(w), Tail(alphas), alpha))

\* C4: for f of length m the returned alpha has pairwise distinct elements,
\* W has m rows of one entry per element of alpha, w0 has length m, and
\* W[r][j] is the sum of the weights row r pairs with alpha[j]; and
\* [x1*p, x2*p] gives alpha = [p], W = [[x1], [x2]], w0 = [0, 0].
SharedBasis ==
    lp.pc = "done" =>
        /\ \A j, k \in 1..Len(lp.alpha) : lp.alpha[j] = lp.alpha[k] => j = k
        /\ Len(lp.W) = lp.n
        /\ Len(lp.w0) = lp.n
        /\ \A r \in 1..lp.n :
            /\ Len(lp.W[r]) = Len(lp.alpha)
            /\ LET t == Decompose(lp.f[r], lp.parameters)
               IN  \A j \in 1..Len(lp.alpha) :
                     lp.W[r][j] = WeightsOf(t.w, t.alpha, lp.alpha[j])
        /\ lp.f = <<Flat(Term(1, Product(V(1), V(3)))),
                    Flat(Term(1, Product(V(2), V(3))))>> =>
            /\ lp.alpha = <<Term(1, Power(V(3), 1))>>
            /\ lp.W = << <<Term(1, Power(V(1), 1))>>, <<Term(1, Power(V(2), 1))>> >>
            /\ lp.w0 = <<Zero, Zero>>

\* The vector [x1*p, x2*p] has been decomposed.
SharedBasisWitness ==
    /\ lp.pc = "done"
    /\ lp.f = <<Flat(Term(1, Product(V(1), V(3)))),
                Flat(Term(1, Product(V(2), V(3))))>>

\* The kinds VisitNonPolynomialTerm handles, and an atom of such a kind
\* with a parameter and another variable.
OpaqueKinds == {"Div", "Sin"}

MixedOpaque(a, parameters) ==
    /\ AtomTable[a].kind \in OpaqueKinds
    /\ AtomVariables(a) \cap parameters # {}
    /\ ~ (AtomVariables(a) \subseteq parameters)

MixedPower(m, a, parameters) ==
    /\ AtomTable[a].kind \in {"Pow", "Add"} \/ m[a] # 1
    /\ AtomVariables(a) \cap parameters # {}
    /\ ~ (AtomVariables(a) \subseteq parameters)

----------------------------------------------------------------------------
(* VisitMultiplication(e, parameters), one iteration of its loop at a time. *)

\* Bound of the model: the factors of an input product.
MaxFactors == 3

\* The inputs: c * prod base^exponent with c in {1, 3}, at most MaxFactors
\* bases among x1, x2, p1, p2, x2 / p1, sin(p1), sin(x1 * p1) and the
\* exponents 1 and 2; a single base to the power 1 needs c # 1 to be a
\* multiplication.
FactorAtoms ==
    { V(1), V(2), V(3), V(4), A("Div", <<2, 3>>), A("Sin", <<3>>),
      A("Sin", <<1, 3>>) }

ProductMonomials ==
    { m \in [Atoms -> 0..2] :
        /\ Bases(m) \subseteq FactorAtoms
        /\ Cardinality(Bases(m)) \in 1..MaxFactors }

Products ==
    { Term(c, m) : c \in {1, 3}, m \in ProductMonomials } \
        { Term(1, Power(a, 1)) : a \in Atoms }

\* (base_i, exponent_i) as the expression Visit or VisitPow is given.
FactorExpression(m, base_i) == Term(1, Power(base_i, m[base_i]))

\* The call: f starts as ({}, {}, c), the loop has every base to visit.
MulInit ==
    \E e \in Products : \E parameters \in ParameterLists :
        LET m == CHOOSE n \in DOMAIN e : TRUE
        IN  /\ vis = [pc |-> "mul", e |-> e, parameters |-> parameters,
                      m |-> m, bases |-> SortAtoms(Bases(m)),
                      f |-> LumpedFactorization(<<>>, <<>>, Const(e[m])),
                      calls |-> 0,
                      a |-> LumpedFactorization(<<>>, <<>>, Zero),
                      b |-> LumpedFactorization(<<>>, <<>>, Zero),
                      err |-> ""]
            /\ lp = Idle /\ lin = Idle /\ quad = Idle /\ aff = Idle
            /\ idx = Idle /\ l2 = Idle /\ app = Idle

\* The factorization of the next factor.
VisitFactor(m, base_i, parameters) ==
    IF m[base_i] = 1 THEN Visit(FactorExpression(m, base_i), parameters)
    ELSE VisitPow(FactorExpression(m, base_i), parameters)

\* One iteration: f = SimpleMultiplication(f, factorization of the factor).
MultiplyFactor ==
    /\ vis.pc = "mul"
    /\ vis.bases # <<>>
    /\ LET t == VisitFactor(vis.m, Head(vis.bases), vis.parameters)
       IN  /\ t.err = ""
           /\ vis' = [vis EXCEPT !.bases = Tail(@),
                                 !.a = vis.f, !.b = t,
                                 !.f = SimpleMultiplication(vis.f, t),
                                 !.calls = @ + 1]
    /\ UNCHANGED <<lp, lin, quad, aff, idx, l2, app>>

\* The visit of the factor throws.
MultiplyThrows ==
    /\ vis.pc = "mul"
    /\ vis.bases # <<>>
    /\ LET t == VisitFactor(vis.m, Head(vis.bases), vis.parameters)
       IN  /\ t.err # ""
           /\ vis' = [vis EXCEPT !.pc = "error", !.err = t.err]
    /\ UNCHANGED <<lp, lin, quad, aff, idx, l2, app>>

MultiplyReturns ==
    /\ vis.pc = "mul"
    /\ vis.bases = <<>>
    /\ vis' = [vis EXCEPT !.pc = "done"]
    /\ UNCHANGED <<lp, lin, quad, aff, idx, l2, app>>

MulNext == MultiplyFactor \/ MultiplyThrows \/ MultiplyReturns

SpecMultiplication == MulInit /\ [][MulNext]_all_vars

\* The stepped loop computes what VisitMultiplication returns.
MultiplicationAgrees ==
    vis.pc = "done" =>
        vis.f = VisitMultiplication(vis.e, vis.parameters)

\* In every call of SimpleMultiplication each of the two factorizations has
\* at most one entry, so the product of the weights is empty or 1 x 1.
CrossTermsFit ==
    vis.calls > 0 => Len(vis.a.w) <= 1 /\ Len(vis.b.w) <= 1

----------------------------------------------------------------------------
(* Visit(e, parameters) of a power e, which dispatches to VisitPow.        *)

\* The inputs: base^exponent for the bases of AtomTable and the exponents
\* -1 and 2 (a sum only to the power -1, a positive power of a sum does not
\* survive Expand), and the nodes pow(x1, p1), pow(p1, x1) themselves; the
\* parameters are any of x1, p1, p2.
PowerNodes ==
    { Term(1, Power(a, -1)) : a \in Atoms }
    \cup { Term(1, Power(a, 2)) : a \in {b \in Atoms : AtomTable[b].kind # "Add"} }
    \cup { Term(1, Power(a, 1)) : a \in {b \in Atoms : AtomTable[b].kind = "Pow"} }

PowerParameters == SUBSET {1, 3, 4}

PowInit ==
    \E e \in PowerNodes : \E parameters \in PowerParameters :
        /\ vis = [pc |-> "pow", e |-> e, parameters |-> parameters,
                  f |-> LumpedFactorization(<<>>, <<>>, Zero), err |-> ""]
        /\ lp = Idle /\ lin = Idle /\ quad = Idle /\ aff = Idle
        /\ idx = Idle /\ l2 = Idle /\ app = Idle

PowReturns ==
    /\ vis.pc = "pow"
    /\ get_kind(vis.e) = "Pow"
    /\ LET t == Visit(vis.e, vis.parameters)
       IN  /\ t.err = ""
           /\ vis' = [vis EXCEPT !.pc = "done", !.f = t]
    /\ UNCHANGED <<lp, lin, quad, aff, idx, l2, app>>

PowThrows ==
    /\ vis.pc = "pow"
    /\ get_kind(vis.e) = "Pow"
    /\ LET t == Visit(vis.e, vis.parameters)
       IN  /\ t.err # ""
           /\ vis' = [vis EXCEPT !.pc = "error", !.err = t.err]
    /\ UNCHANGED <<lp, lin, quad, aff, idx, l2, app>>

PowNext == PowReturns \/ PowThrows

SpecPow == PowInit /\ [][PowNext]_all_vars

\* The base of the power e, and whether its exponent is a number: the
\* nodes pow(x1, p1) and pow(p1, x1) have a variable as exponent.
PowerBase(e) == CHOOSE a \in Atoms : \E m \in DOMAIN e : m[a] # 0

PowerOfMixed(e, parameters) ==
    /\ GetVariables(e) \cap parameters # {}
    /\ ~ (GetVariables(e) \subseteq parameters)

\* C12: for a power e, when every variable of e is a parameter the result
\* is (W = [1], alpha = [e], w0 = 0); when none is, (W = [], alpha = [],
\* w0 = e); when they are mixed no triple is returned, neither for e nor
\* for a product with the factor e, and the error is UnsupportedMixedPower
\* for a constant exponent and NonSeparablePower otherwise.
PowerRule ==
    vis.pc \in {"done", "error"} =>
        LET e == vis.e
            variables == GetVariables(e)
        IN  IF variables \subseteq vis.parameters
            THEN /\ vis.pc = "done"
                 /\ vis.f.w = <<Const(1)>> /\ vis.f.alpha = <<e>>
                 /\ vis.f.w0 = Zero
            ELSE IF variables \cap vis.parameters = {}
            THEN /\ vis.pc = "done"
                 /\ vis.f.w = <<>> /\ vis.f.alpha = <<>> /\ vis.f.w0 = e
            ELSE /\ vis.pc = "error"
                 /\ vis.err = IF AtomTable[PowerBase(e)].kind = "Pow"
                              THEN "NonSeparablePower"
                              ELSE "UnsupportedMixedPower"
                 /\ Decompose(Flat(Scale(3, e)), vis.parameters).err = vis.err

\* The mixed case with a constant exponent: (x1 + p1)^-1, parameter p1.
PowerRuleWitness ==
    /\ vis.pc = "error"
    /\ vis.err = "UnsupportedMixedPower"
    /\ vis.e = Term(1, Power(A("Add", <<1, 3>>), -1))
    /\ vis.parameters = {3}

----------------------------------------------------------------------------
(* VisitAddition(e, parameters), one iteration of its loop at a time.      *)

\* The inputs: sums of two to MaxTerms + 1 of the terms 2, x1, p1, x1*p1,
\* x1*p2, 3*x2*p1, x1*sin(p1), sin(x1*p1), 2*p1^2.
AdditionTerms ==
    { Const(2),
      Term(1, Power(V(1), 1)),
      Term(1, Power(V(3), 1)),
      Term(1, MonoMul(Power(V(1), 1), Power(V(3), 1))),
      Term(1, MonoMul(Power(V(1), 1), Power(V(4), 1))),
      Term(3, MonoMul(Power(V(2), 1), Power(V(3), 1))),
      Term(1, MonoMul(Power(V(1), 1), Power(A("Sin", <<3>>), 1))),
      Term(1, Power(A("Sin", <<1, 3>>), 1)),
      Term(2, Power(V(3), 2)) }

Additions ==
    {SumOf(S) : S \in {T \in SUBSET AdditionTerms :
                          Cardinality(T) \in 2..(MaxTerms + 1)}}

\* The call: w0 is the constant of e, w_map is empty, the loop has every
\* term c_i * e_i to visit, in the order of the map of e.
AddInit ==
    \E e \in Additions : \E parameters \in ParameterLists :
        /\ vis = [pc |-> "add", e |-> e, parameters |-> parameters,
                  terms |-> SortMonos(DOMAIN e \ {One}),
                  w0 |-> Const(Coef(e, One)), w_map |-> EmptyMap,
                  visited |-> <<>>,
                  f |-> LumpedFactorization(<<>>, <<>>, Zero), err |-> ""]
        /\ lp = Idle /\ lin = Idle /\ quad = Idle /\ aff = Idle
        /\ idx = Idle /\ l2 = Idle /\ app = Idle

\* One iteration: the term c_i * e_i is visited and merged.
AddTerm ==
    /\ vis.pc = "add"
    /\ vis.terms # <<>>
    /\ LET e_i == Term(1, Head(vis.terms))
           c_i == vis.e[Head(vis.terms)]
           t == Visit(e_i, vis.parameters)
       IN  /\ t.err = ""
           /\ vis' = [vis EXCEPT
                        !.terms = Tail(@),
                        !.w0 = Plus(@, Scale(c_i, t.w0)),
                        !.w_map = EmplaceAddAll(@, c_i, t.w, t.alpha),
                        !.visited = Append(@, [c |-> c_i, t |-> t])]
    /\ UNCHANGED <<lp, lin, quad, aff, idx, l2, app>>

\* The visit of the term throws.
AddThrows ==
    /\ vis.pc = "add"
    /\ vis.terms # <<>>
    /\ LET t == Visit(Term(1, Head(vis.terms)), vis.parameters)
       IN  /\ t.err # ""
           /\ vis' = [vis EXCEPT !.pc = "error", !.err = t.err]
    /\ UNCHANGED <<lp, lin, quad, aff, idx, l2, app>>

\* w_map is read in the order of its keys into w and alpha.
AddReturns ==
    /\ vis.pc = "add"
    /\ vis.terms = <<>>
    /\ LET keys == SortExprs(DOMAIN vis.w_map)
       IN  vis' = [vis EXCEPT
                     !.pc = "done",
                     !.f = LumpedFactorization(
                               keys, [k \in 1..Len(keys) |-> vis.w_map[keys[k]]],
                               vis.w0)]
    /\ UNCHANGED <<lp, lin, quad, aff, idx, l2, app>>

AddNext == AddTerm \/ AddThrows \/ AddReturns

SpecAddition == AddInit /\ [][AddNext]_all_vars

\* The stepped loop computes what VisitAddition returns.
AdditionAgrees ==
    /\ vis.pc = "done" => vis.f = VisitAddition(vis.e, vis.parameters)
    /\ vis.pc = "error" => VisitAddition(vis.e, vis.parameters).err = vis.err

\* The sum of c_i * w0_i over the visited terms.
RECURSIVE SumOfRemainders(_)
SumOfRemainders(visited) ==
    IF visited = <<>> THEN Zero
    ELSE Plus(Scale(Head(visited).c, Head(visited).t.w0),
              SumOfRemainders(Tail(visited)))

\* The sum of the alpha_i[j] of one term whose weight c_i * w_i[j] is k.
RECURSIVE AlphasOfWeight(_, _, _, _)
AlphasOfWeight(c, w, alpha, k) ==
    IF w = <<>> THEN Zero
    ELSE Plus(IF Scale(c, Head(w)) = k THEN Head(alpha) ELSE Zero,
              AlphasOfWeight(c, Tail(w), Tail(alpha), k))

\* The same over all the visited terms.
RECURSIVE AlphasOfWeightIn(_, _)
AlphasOfWeightIn(visited, k) ==
    IF visited = <<>> THEN Zero
    ELSE Plus(AlphasOfWeight(Head(visited).c, Head(visited).t.w,
                             Head(visited).t.alpha, k),
              AlphasOfWeightIn(Tail(visited), k))

\* C13: for e = c0 + sum_i c_i*e_i, VisitAddition returns w0 = c0 +
\* sum_i c_i*w0_i and weights that are pairwise distinct and in the total
\* order of expressions; every scaled weight c_i*w_i[j] is one of them, and
\* the weight k is paired with the sum of the alpha_i[j] of the scaled
\* weights equal to k.
AdditionMerging ==
    vis.pc = "done" =>
        LET r == vis.f
        IN  /\ r.w0 = Plus(Const(Coef(vis.e, One)), SumOfRemainders(vis.visited))
            /\ Len(r.w) = Len(r.alpha)
            /\ \A j, k \in 1..Len(r.w) : j < k => ExprLess(r.w[j], r.w[k])
            /\ \A i \in 1..Len(vis.visited) :
                  \A j \in 1..Len(vis.visited[i].t.w) :
                      \E k \in 1..Len(r.w) :
                          r.w[k] = Scale(vis.visited[i].c, vis.visited[i].t.w[j])
            /\ \A k \in 1..Len(r.w) :
                  /\ \E i \in 1..Len(vis.visited) :
                        \E j \in 1..Len(vis.visited[i].t.w) :
                            r.w[k] = Scale(vis.visited[i].c, vis.visited[i].t.w[j])
                  /\ r.alpha[k] = AlphasOfWeightIn(vis.visited, r.w[k])

\* x1*p1 + x1*p2 with the parameters p1, p2 returned W = [x1],
\* alpha = [p1 + p2], w0 = 0.
AdditionMergingWitness ==
    /\ vis.pc = "done"
    /\ vis.e = Plus(Term(1, MonoMul(Power(V(1), 1), Power(V(3), 1))),
                    Term(1, MonoMul(Power(V(1), 1), Power(V(4), 1))))
    /\ vis.f.w = << Term(1, Power(V(1), 1)) >>
    /\ vis.f.alpha = << Plus(Term(1, Power(V(3), 1)), Term(1, Power(V(4), 1))) >>
    /\ vis.f.w0 = Zero

----------------------------------------------------------------------------
(* ExtractAndAppendVariablesFromExpression(e, vars, map_var_to_index),     *)
(* called again and again on the same vars and map_var_to_index.           *)

\* Bound of the model: the calls on one list.
MaxCalls == 3

\* The loop of the overload for std::vector<Variable>:
\* try_emplace(id, vars->size()), and push_back when it inserted.
RECURSIVE TryEmplaceAll(_, _, _)
TryEmplaceAll(var_vec, map_var_to_index, ids) ==
    IF ids = <<>> THEN [vars |-> var_vec, map_var_to_index |-> map_var_to_index]
    ELSE LET id == Head(ids)
             emplace_success == id \notin DOMAIN map_var_to_index
         IN  IF emplace_success
             THEN TryEmplaceAll(Append(var_vec, id),
                                map_var_to_index @@ (id :> Len(var_vec)),
                                Tail(ids))
             ELSE TryEmplaceAll(var_vec, map_var_to_index, Tail(ids))

\* The loop of the overload for VectorX<Variable> with the index taken
\* after the resize.
RECURSIVE FindEmplaceAllLate(_, _, _)
FindEmplaceAllLate(var_vec, map_var_to_index, ids) ==
    IF ids = <<>> THEN [vars |-> var_vec, map_var_to_index |-> map_var_to_index]
    ELSE LET id == Head(ids)
         IN  IF id \notin DOMAIN map_var_to_index
             THEN FindEmplaceAllLate(Append(var_vec, id),
                                     map_var_to_index @@ (id :> Len(var_vec) + 1),
                                     Tail(ids))
             ELSE FindEmplaceAllLate(var_vec, map_var_to_index, Tail(ids))

\* The loop of the overload for VectorX<Variable>: when find(id) fails,
\* emplace(id, vars->size()), then the vector grows by one and takes var.
RECURSIVE FindEmplaceAll(_, _, _)
FindEmplaceAll(var_vec, map_var_to_index, ids) ==
    IF ids = <<>> THEN [vars |-> var_vec, map_var_to_index |-> map_var_to_index]
    ELSE LET id == Head(ids)
         IN  IF id \notin DOMAIN map_var_to_index
             THEN FindEmplaceAll(Append(var_vec, id),
                                 map_var_to_index @@ (id :> Len(var_vec)),
                                 Tail(ids))
             ELSE FindEmplaceAll(var_vec, map_var_to_index, Tail(ids))

\* One call of either overload: the test of the sizes, then the loop over
\* e.GetVariables().
ExtractAndAppendVariablesFromExpression(overload, e, var_vec, map_var_to_index) ==
    IF Cardinality(DOMAIN map_var_to_index) # Len(var_vec)
    THEN [err |-> IF overload = "std::vector" THEN "DRAKE_THROW_UNLESS"
                  ELSE "DRAKE_DEMAND",
          vars |-> var_vec, map_var_to_index |-> map_var_to_index]
    ELSE LET ids == SortIds(GetVariables(e))
             r == IF overload = "std::vector"
                  THEN TryEmplaceAll(var_vec, map_var_to_index, ids)
                  ELSE FindEmplaceAll(var_vec, map_var_to_index, ids)
         IN  [err |-> "", vars |-> r.vars, map_var_to_index |-> r.map_var_to_index]

\* The caller starts with an empty list and an empty map.
AppInit ==
    \E overload \in {"std::vector", "VectorX"} :
        /\ app = [pc |-> "ready", overload |-> overload, calls |-> 0,
                  e |-> Zero, before |-> <<>>,
                  vars |-> <<>>, map_var_to_index |-> EmptyIndex, err |-> ""]
        /\ lp = Idle /\ lin = Idle /\ quad = Idle /\ aff = Idle
        /\ idx = Idle /\ l2 = Idle /\ vis = Idle

\* One call, on an expression of the caller's choice; `before` keeps the
\* list as it was when the call started.
ExtractAndAppend ==
    /\ app.pc = "ready"
    /\ app.calls < MaxCalls
    /\ \E e \in IndexedExpressions :
         LET r == ExtractAndAppendVariablesFromExpression(
                      app.overload, e, app.vars, app.map_var_to_index)
         IN  app' = [app EXCEPT !.pc = IF r.err = "" THEN "ready" ELSE "error",
                                !.err = r.err,
                                !.calls = @ + 1,
                                !.e = e,
                                !.before = app.vars,
                                !.vars = r.vars,
                                !.map_var_to_index = r.map_var_to_index]
    /\ UNCHANGED <<lp, lin, quad, aff, idx, l2, vis>>

AppNext == ExtractAndAppend

SpecAppend == AppInit /\ [][AppNext]_all_vars

\* C14: after any sequence of calls that starts from an empty list and an
\* empty map, the size of the map is the length of the list, the list has
\* no variable twice, map[id of list[k]] = k for every position k (counted
\* from 0), and the list before the last call is a prefix of the list after
\* it: the variables already indexed keep their positions and the new ones,
\* those of e that were not indexed, are appended at the end.
DenseIndex ==
    /\ app.pc # "error"
    /\ app.pc = "ready" =>
        /\ Cardinality(DOMAIN app.map_var_to_index) = Len(app.vars)
        /\ \A j, k \in DOMAIN app.vars : j # k => app.vars[j] # app.vars[k]
        /\ \A k \in DOMAIN app.vars : app.map_var_to_index[app.vars[k]] = k - 1
        /\ Len(app.before) <= Len(app.vars)
        /\ SubSeq(app.vars, 1, Len(app.before)) = app.before
        /\ {app.vars[k] : k \in (Len(app.before) + 1)..Len(app.vars)}
              = GetVariables(app.e) \ {app.before[k] : k \in DOMAIN app.before}

\* A call on pow(x3, x1) after x2 and x3 were indexed: x1 is appended at
\* position 2, x2 and x3 stay at 0 and 1.
DenseIndexWitness ==
    /\ app.pc = "ready"
    /\ app.overload = "VectorX"
    /\ app.calls >= 2
    /\ app.before = <<2, 3>>
    /\ app.e = Term(1, Power(A("Pow", <<3, 1>>), 1))
    /\ app.vars = <<2, 3, 1>>

====
